---------------------------- MODULE Spec2Model ----------------------------
(***************************************************************************)
(* Model of tp7_util.py: the TP-7 multitrack converter.                    *)
(*                                                                         *)
(* A WAV file is a record  [nchannels, sampwidth, framerate, nframes,      *)
(* data]  whose data is the sequence of payload bytes (0..255) as they lie *)
(* on disk.  The file system is a function from the paths that exist to    *)
(* such records, plus the set of directories that exist.                   *)
(*                                                                         *)
(* numpy integers are modelled by their values; an unsigned 32-bit word    *)
(* (which can exceed the integers TLC computes with) is modelled by its four*)
(* little-endian bytes, which is how the code itself builds and reads it   *)
(* (padded.view('<u4'), audio_array.view(np.uint8)).                       *)
(***************************************************************************)
EXTENDS Integers, Sequences, FiniteSets, TLC

VARIABLES fs, dirs, op, ret, err, input_files, codec

vars == <<fs, dirs, op, ret, err, input_files, codec>>

-----------------------------------------------------------------------------
(* Bounds of the model *)

\* longest input file, in frames
MaxFrames == 2
\* number of different payload byte patterns an input file can carry
MaxSeed == 2
\* longest list of input paths handed to import_to_multitrack
MaxPaths == 7

(* Constants of the program *)

\* channels of a TP-7 multitrack file
NumChannels == 12
\* stereo tracks of a TP-7 multitrack file
NumTracks == 6

-----------------------------------------------------------------------------
(* numpy helpers *)

\* array.reshape(rows, cols) of a flat array: row-major
reshape(flat, rows, cols) ==
    [r \in 1..rows |-> [c \in 1..cols |-> flat[(r - 1) * cols + c]]]

\* array.flatten() of a 2-d array with cols columns (also bytes of byte groups)
flatten(arr, cols) ==
    [k \in 1..(Len(arr) * cols) |-> arr[((k - 1) \div cols) + 1][((k - 1) % cols) + 1]]

\* bitwise and / or of two bytes
RECURSIVE BitAnd(_, _)
BitAnd(a, b) ==
    IF a = 0 \/ b = 0 THEN 0
    ELSE (a % 2) * (b % 2) + 2 * BitAnd(a \div 2, b \div 2)

RECURSIVE BitOr(_, _)
BitOr(a, b) ==
    IF a = 0 THEN b
    ELSE IF b = 0 THEN a
    ELSE (IF a % 2 = 1 \/ b % 2 = 1 THEN 1 ELSE 0) + 2 * BitOr(a \div 2, b \div 2)

\* a uint32 as its four little-endian bytes: x & y,  x | y
U32And(x, y) == [j \in 1..4 |-> BitAnd(x[j], y[j])]
U32Or(x, y) == [j \in 1..4 |-> BitOr(x[j], y[j])]

\* the masks 0x00800000 and 0xFF000000
SignBit24 == <<0, 0, 128, 0>>
UpperByte == <<0, 0, 0, 255>>

\* uint32.astype(np.int32): the same 32 bits read as two's complement
AsInt32(x) ==
    x[1] + 256 * x[2] + 65536 * x[3]
    + 16777216 * (IF x[4] >= 128 THEN x[4] - 256 ELSE x[4])

\* int32.view(np.uint8): the four little-endian bytes of a 32-bit integer
Int32Bytes(v) ==
    <<v % 256, (v \div 256) % 256, (v \div 65536) % 256, (v \div 16777216) % 256>>

\* int16.tobytes(): the two little-endian bytes (astype(np.int16) keeps the low 16 bits)
Int16Bytes(v) == <<v % 256, (v \div 256) % 256>>

\* np.frombuffer(data, dtype=np.int16)
frombuffer_int16(data) ==
    [k \in 1..(Len(data) \div 2) |->
        LET u == data[2 * k - 1] + 256 * data[2 * k]
        IN  IF u >= 32768 THEN u - 65536 ELSE u]

\* np.frombuffer(data, dtype=np.int32)
frombuffer_int32(data) ==
    [k \in 1..(Len(data) \div 4) |-> AsInt32(SubSeq(data, 4 * k - 3, 4 * k))]

-----------------------------------------------------------------------------
(* read_24bit_audio / write_24bit_audio *)

\* where(sign_bit_mask, audio_32bit | 0xFF000000, audio_32bit) for one word
SignExtendDropped(word) == word

SignExtend(word) ==
    IF U32And(word, SignBit24) # <<0, 0, 0, 0>>
    THEN U32Or(word, UpperByte)
    ELSE word

read_24bit_audio(audio_bytes) ==
    LET rows == reshape(audio_bytes, Len(audio_bytes) \div 3, 3)
        padded == [k \in 1..Len(rows) |-> rows[k] \o <<0>>]
    IN  [k \in 1..Len(padded) |-> AsInt32(SignExtend(padded[k]))]

\* audio_bytes[:, :3] of one sample
LowThreeHigh(quad) == SubSeq(quad, 2, 4)

LowThree(quad) == SubSeq(quad, 1, 3)

write_24bit_audio(audio_array) ==
    flatten([k \in 1..Len(audio_array) |-> LowThree(Int32Bytes(audio_array[k]))], 3)

-----------------------------------------------------------------------------
(* wave files *)

\* wave.open(path, 'wb') ... writeframes(frames): the header's frame count is
\* patched from the number of bytes written
wave_write(nchannels, sampwidth, framerate, frames) ==
    [nchannels |-> nchannels, sampwidth |-> sampwidth, framerate |-> framerate,
     nframes |-> Len(frames) \div (nchannels * sampwidth), data |-> frames]

\* the sample widths both commands convert
SupportedWidth(sample_width) == sample_width \in {2, 3, 4}

\* "Convert to numpy array": the flat array of samples of a payload
to_array(audio_data, sample_width) ==
    CASE sample_width = 2 -> frombuffer_int16(audio_data)
      [] sample_width = 3 -> read_24bit_audio(audio_data)
      [] sample_width = 4 -> frombuffer_int32(audio_data)

\* "Convert back to bytes": the payload of a flat array of samples
to_bytes(array, sample_width) ==
    CASE sample_width = 2 -> flatten([k \in 1..Len(array) |-> Int16Bytes(array[k])], 2)
      [] sample_width = 3 -> write_24bit_audio(array)
      [] sample_width = 4 -> flatten([k \in 1..Len(array) |-> Int32Bytes(array[k])], 4)

-----------------------------------------------------------------------------
(* export_multitrack *)

\* the input file of the export command and its default output directory
InputPath == "rec.wav"
OutputDir == "rec_tracks"

\* f"{n:02d}"
Digit == <<"0", "1", "2", "3", "4", "5", "6", "7", "8", "9">>
TwoDigits(n) == Digit[((n \div 10) % 10) + 1] \o Digit[(n % 10) + 1]

\* output_dir / f"track_{track_num + 1:02d}.wav"
track_file(output_dir, track_num) ==
    output_dir \o "/track_" \o TwoDigits(track_num + 1) \o ".wav"

\* the two columns of track track_num (0-based), as 1-based column numbers
left_channel_shifted(track_num) == track_num + 1

left_channel(track_num) == track_num * 2 + 1

right_channel(track_num) == track_num * 2 + 2

\* audio_array[:, [left_channel, right_channel]]
stereo_data_swapped(audio_array, track_num) ==
    [f \in 1..Len(audio_array) |->
        <<audio_array[f][right_channel(track_num)], audio_array[f][left_channel(track_num)]>>]

stereo_data(audio_array, track_num) ==
    [f \in 1..Len(audio_array) |->
        <<audio_array[f][left_channel(track_num)], audio_array[f][right_channel(track_num)]>>]

\* the file system after the first n iterations of the track loop
RECURSIVE write_tracks(_, _, _, _, _)
write_tracks(files, audio_array, wav, output_dir, n) ==
    IF n = 0 THEN files
    ELSE LET stereo == stereo_data(audio_array, n - 1)
         IN  (track_file(output_dir, n - 1) :>
                 wave_write(2, wav.sampwidth, wav.framerate,
                            to_bytes(flatten(stereo, 2), wav.sampwidth)))
             @@ write_tracks(files, audio_array, wav, output_dir, n - 1)

\* output_dir.mkdir(exist_ok=True)
mkdir_skipped(ds, output_dir) == ds

mkdir(ds, output_dir) == ds \cup {output_dir}

\* the channel check of the input
is_multitrack_atleast(channels) == channels >= NumChannels

is_multitrack(channels) == channels = NumChannels

\* The whole call.  okWrites is the number of track files the file system lets
\* the call open for writing before wave.open(..., 'wb') raises (NumTracks: all);
\* the exception is caught by the except clause, which returns False.  The
\* output directory is the default one, next to the input, so that mkdir
\* succeeds whenever the input exists.
export_multitrack(files, ds, input_file, output_dir, okWrites) ==
    IF input_file \notin DOMAIN files
    THEN [fs |-> files, dirs |-> ds, ret |-> FALSE, err |-> "InputNotFound"]
    ELSE LET ds1 == mkdir(ds, output_dir)
             wav == files[input_file]
             channels == wav.nchannels
             n_frames == wav.nframes
         IN  IF ~is_multitrack(channels)
             THEN [fs |-> files, dirs |-> ds1, ret |-> FALSE, err |-> "ChannelCountMismatch"]
             ELSE IF ~SupportedWidth(wav.sampwidth)
             THEN [fs |-> files, dirs |-> ds1, ret |-> FALSE, err |-> "UnsupportedBitDepth"]
             ELSE LET flat == to_array(wav.data, wav.sampwidth)
                  IN  IF Len(flat) # n_frames * channels
                      THEN [fs |-> files, dirs |-> ds1, ret |-> FALSE, err |-> "IOError"]
                      ELSE LET audio_array == reshape(flat, n_frames, channels)
                               written == IF okWrites < NumTracks THEN okWrites ELSE NumTracks
                               files1 == write_tracks(files, audio_array, wav, output_dir, written)
                           IN  IF written < NumTracks
                               THEN [fs |-> files1, dirs |-> ds1, ret |-> FALSE, err |-> "IOError"]
                               ELSE [fs |-> files1, dirs |-> ds1, ret |-> TRUE, err |-> "none"]

-----------------------------------------------------------------------------
(* import_to_multitrack *)

\* the files of input_files that exist, in the order given
valid_files_reversed(files, paths) ==
    LET v == SelectSeq(paths, LAMBDA f : f \in DOMAIN files)
    IN  [k \in 1..Len(v) |-> v[Len(v) + 1 - k]]

valid_files_of(files, paths) == SelectSeq(paths, LAMBDA f : f \in DOMAIN files)

\* len(valid_files) > 6
too_many_never(valid_files) == FALSE

too_many(valid_files) == Len(valid_files) > NumTracks

\* the per-file format checks of the load loop, in the order the code makes them
format_error_no_rate(params, ref_width, ref_rate) ==
    IF params.nchannels # 2 THEN "ChannelCountMismatch"
    ELSE IF params.sampwidth # ref_width THEN "SampleWidthMismatch"
    ELSE "none"

format_error(params, ref_width, ref_rate) ==
    IF params.nchannels # 2 THEN "ChannelCountMismatch"
    ELSE IF params.sampwidth # ref_width THEN "SampleWidthMismatch"
    ELSE IF params.framerate # ref_rate THEN "SampleRateMismatch"
    ELSE "none"

\* the load loop from its i-th file on: the error it returns with, or all_tracks
RECURSIVE load_tracks(_, _, _, _, _, _)
load_tracks(files, valid_files, ref_width, ref_rate, i, all_tracks) ==
    IF i > Len(valid_files)
    THEN [err |-> "none", all_tracks |-> all_tracks]
    ELSE LET params == files[valid_files[i]]
             e == format_error(params, ref_width, ref_rate)
         IN  IF e # "none"
             THEN [err |-> e, all_tracks |-> all_tracks]
             ELSE IF ~SupportedWidth(ref_width)
             THEN [err |-> "UnsupportedBitDepth", all_tracks |-> all_tracks]
             ELSE LET flat == to_array(params.data, ref_width)
                      audio_array == reshape(flat, Len(flat) \div 2, 2)
                  IN  load_tracks(files, valid_files, ref_width, ref_rate, i + 1,
                                  Append(all_tracks, audio_array))

\* max(track.shape[0] for track in all_tracks)
RECURSIVE shortest(_)
shortest(all_tracks) ==
    IF Len(all_tracks) = 1 THEN Len(all_tracks[1])
    ELSE LET m == shortest(Tail(all_tracks))
         IN  IF Len(all_tracks[1]) < m THEN Len(all_tracks[1]) ELSE m

RECURSIVE max_frames_of(_)
max_frames_of(all_tracks) ==
    IF Len(all_tracks) = 1 THEN Len(all_tracks[1])
    ELSE LET m == max_frames_of(Tail(all_tracks))
         IN  IF Len(all_tracks[1]) > m THEN Len(all_tracks[1]) ELSE m

\* np.zeros((max_frames, 12))
zeros(rows, cols) == [f \in 1..rows |-> [c \in 1..cols |-> 0]]

\* multitrack after the first i iterations of
\*   multitrack[:track_frames, i*2:i*2+2] = track
RECURSIVE fill_tracks(_, _, _)
fill_tracks(multitrack, all_tracks, i) ==
    IF i = 0 THEN multitrack
    ELSE LET prev == fill_tracks(multitrack, all_tracks, i - 1)
             track == all_tracks[i]
             first == (i - 1) * 2
         IN  [f \in 1..Len(prev) |->
                [c \in 1..NumChannels |->
                    IF f <= Len(track) /\ c - first \in {1, 2}
                    THEN track[f][c - first]
                    ELSE prev[f][c]]]

\* The whole call.
import_to_multitrack(files, paths, output_file) ==
    LET valid_files == valid_files_of(files, paths)
    IN  IF Len(valid_files) = 0
        THEN [fs |-> files, ret |-> FALSE, err |-> "NoValidInputs"]
        ELSE IF too_many(valid_files)
        THEN [fs |-> files, ret |-> FALSE, err |-> "TooManyTracks"]
        ELSE LET ref_params == files[valid_files[1]]
                 ref_width == ref_params.sampwidth
                 ref_rate == ref_params.framerate
             IN  IF ref_params.nchannels # 2
                 THEN [fs |-> files, ret |-> FALSE, err |-> "ChannelCountMismatch"]
                 ELSE LET loaded == load_tracks(files, valid_files, ref_width, ref_rate, 1, <<>>)
                      IN  IF loaded.err # "none"
                          THEN [fs |-> files, ret |-> FALSE, err |-> loaded.err]
                          ELSE LET all_tracks == loaded.all_tracks
                                   max_frames == max_frames_of(all_tracks)
                                   multitrack == fill_tracks(zeros(max_frames, NumChannels),
                                                             all_tracks, Len(all_tracks))
                                   out == wave_write(NumChannels, ref_width, ref_rate,
                                              to_bytes(flatten(multitrack, NumChannels), ref_width))
                               IN  [fs |-> (output_file :> out) @@ files,
                                    ret |-> TRUE, err |-> "none"]

-----------------------------------------------------------------------------
(* The files the commands are run on *)

\* paths given to the import command: two stereo files and a path that never exists
StereoA == "a.wav"
StereoB == "b.wav"
Missing == "missing.wav"
OutputFile == "multitrack.wav"

Rates == {44100, 48000}

\* payload bytes: seed 0 fills channel k with the constant k, any other seed
\* cycles through BytePattern starting at the seed
BytePattern == <<1, 128, 255, 127, 0, 254, 52>>

payload(nchannels, sampwidth, nframes, seed) ==
    [p \in 1..(nframes * nchannels * sampwidth) |->
        IF seed = 0
        THEN IF (p - 1) % sampwidth = 0 THEN ((p - 1) \div sampwidth) % nchannels ELSE 0
        ELSE BytePattern[((seed + p - 1) % Len(BytePattern)) + 1]]

\* a well-formed WAV file: the header's frame count is that of the payload
make_wav(nchannels, sampwidth, framerate, nframes, seed) ==
    wave_write(nchannels, sampwidth, framerate, payload(nchannels, sampwidth, nframes, seed))

\* input files of the export command: right and wrong channel counts and widths
ExportInputs ==
    {make_wav(ch, w, r, n, s) :
        ch \in {2, NumChannels, NumChannels + 1}, w \in 1..4, r \in Rates,
        n \in 0..MaxFrames, s \in 0..MaxSeed}

\* input files of the import command, at the given sample rates
ImportInputs(rates, seed) ==
    {make_wav(ch, w, r, n, seed) : ch \in {1, 2}, w \in {2, 3, 4}, r \in rates, n \in 0..MaxFrames}

\* the lists of paths given to the import command: up to MaxPaths paths, the
\* i-th being the (start + i*step)-th of <<StereoA, StereoB, Missing>>, cyclically
\* (every list of up to two of the three paths is among them), and the six
\* track files of an export
Given == <<StereoA, StereoB, Missing>>

PathLists ==
    {[i \in 1..n |-> Given[((start + (i - 1) * step) % 3) + 1]] :
        n \in 0..MaxPaths, start \in 0..2, step \in 0..2}

TrackFiles == [i \in 1..NumTracks |-> track_file(OutputDir, i - 1)]

InputLists == PathLists \cup {TrackFiles}

NoFiles == [p \in {} |-> 0]

CodecOff == [stage |-> "off", width |-> 0, nchannels |-> 0, orig |-> <<>>, mid |-> <<>>, fin |-> <<>>]

-----------------------------------------------------------------------------
(* The commands *)

\* Before any command: either the directory of a recording (which may be
\* missing, and whose track directory may exist already), or two stereo files.
Init ==
    /\ \/ /\ fs \in {NoFiles} \cup {InputPath :> w : w \in ExportInputs}
          /\ dirs \in {{}, {OutputDir}}
       \/ /\ fs \in {(StereoA :> a) @@ (StereoB :> b) : a \in ImportInputs({44100}, 1), b \in ImportInputs(Rates, 4)}
          /\ dirs = {}
    /\ op = "none"
    /\ ret = FALSE
    /\ err = "none"
    /\ input_files = <<>>
    /\ codec = CodecOff

\* tp7-util export rec.WAV
Export ==
    /\ op = "none"
    /\ codec.stage = "off"
    /\ \E okWrites \in 0..NumTracks :
          LET r == export_multitrack(fs, dirs, InputPath, OutputDir, okWrites)
          IN  /\ fs' = r.fs
              /\ dirs' = r.dirs
              /\ ret' = r.ret
              /\ err' = r.err
    /\ op' = "export"
    /\ UNCHANGED <<input_files, codec>>

\* tp7-util import <paths> -o multitrack.WAV
Import ==
    /\ op \in {"none", "export"}
    /\ codec.stage = "off"
    /\ \E paths \in InputLists :
          LET r == import_to_multitrack(fs, paths, OutputFile)
          IN  /\ fs' = r.fs
              /\ ret' = r.ret
              /\ err' = r.err
              /\ input_files' = paths
    /\ op' = "import"
    /\ UNCHANGED <<dirs, codec>>

Next == Export \/ Import

Spec == Init /\ [][Next]_vars

-----------------------------------------------------------------------------
(* The sample conversions on their own: a payload is read into a buffer and  *)
(* written back, or a buffer is written to a payload and read back, with the *)
(* conversions of the two commands.                                          *)

ByteVals == {0, 1, 127, 128, 255}

\* a payload of one sample of each width, over ByteVals
CodecPayloads ==
    {[stage |-> "bytes", width |-> w, nchannels |-> 1, orig |-> b, mid |-> <<>>, fin |-> <<>>] :
        w \in {2}, b \in [1..2 -> ByteVals]}
    \cup
    {[stage |-> "bytes", width |-> w, nchannels |-> 1, orig |-> b, mid |-> <<>>, fin |-> <<>>] :
        w \in {3}, b \in [1..3 -> ByteVals]}
    \cup
    {[stage |-> "bytes", width |-> w, nchannels |-> 1, orig |-> b, mid |-> <<>>, fin |-> <<>>] :
        w \in {4}, b \in [1..4 -> ByteVals]}

\* the value of a 24-bit two's-complement number given by its three bytes
TwosComplement24(b) ==
    LET u == b[1] + 256 * b[2] + 65536 * b[3]
    IN  IF u >= 8388608 THEN u - 16777216 ELSE u

\* a buffer of one 24-bit sample (every value with bytes in ByteVals), and the
\* all-zero buffers of every width and shape
CodecBuffers ==
    {[stage |-> "samples", width |-> 3, nchannels |-> 1,
      orig |-> <<(<<TwosComplement24(b)>>)>>, mid |-> <<>>, fin |-> <<>>] :
        b \in [1..3 -> ByteVals]}
    \cup
    {[stage |-> "samples", width |-> w, nchannels |-> ch,
      orig |-> zeros(n, ch), mid |-> <<>>, fin |-> <<>>] :
        w \in {2, 3, 4}, ch \in {1, 2, NumChannels}, n \in 0..MaxFrames}

InitCodec ==
    /\ codec \in CodecPayloads \cup CodecBuffers
    /\ fs = NoFiles
    /\ dirs = {}
    /\ op = "none"
    /\ ret = FALSE
    /\ err = "none"
    /\ input_files = <<>>

\* readframes, "Convert to numpy array" and reshape(n_frames, channels)
codec_read(data, sample_width, channels) ==
    LET flat == to_array(data, sample_width)
    IN  reshape(flat, Len(flat) \div channels, channels)

\* "Convert back to bytes" of a whole buffer and writeframes
codec_write(buffer, sample_width, channels) ==
    wave_write(channels, sample_width, 44100, to_bytes(flatten(buffer, channels), sample_width)).data

CodecRead ==
    /\ \/ /\ codec.stage = "bytes"
          /\ codec' = [codec EXCEPT !.stage = "bytes_read",
                          !.mid = codec_read(codec.orig, codec.width, codec.nchannels)]
       \/ /\ codec.stage = "samples_written"
          /\ codec' = [codec EXCEPT !.stage = "samples_written_read",
                          !.fin = codec_read(codec.mid, codec.width, codec.nchannels)]
    /\ UNCHANGED <<fs, dirs, op, ret, err, input_files>>

CodecWrite ==
    /\ \/ /\ codec.stage = "samples"
          /\ codec' = [codec EXCEPT !.stage = "samples_written",
                          !.mid = codec_write(codec.orig, codec.width, codec.nchannels)]
       \/ /\ codec.stage = "bytes_read"
          /\ codec' = [codec EXCEPT !.stage = "bytes_read_written",
                          !.fin = codec_write(codec.mid, codec.width, codec.nchannels)]
    /\ UNCHANGED <<fs, dirs, op, ret, err, input_files>>

NextCodec == CodecRead \/ CodecWrite

SpecCodec == InitCodec /\ [][NextCodec]_vars

-----------------------------------------------------------------------------
(* Reading a file's samples off its bytes, for stating the properties: the  *)
(* sample of frame f (from 1), channel c (from 1) of a 16-, 24- or 32-bit   *)
(* file is the two's-complement number its little-endian bytes spell.       *)

Pow256 == <<1, 256, 65536, 16777216>>

RECURSIVE LowBytes(_, _, _)
LowBytes(data, base, n) ==
    IF n = 0 THEN 0 ELSE data[base + n] * Pow256[n] + LowBytes(data, base, n - 1)

SampleAt(wav, f, c) ==
    LET w == wav.sampwidth
        base == ((f - 1) * wav.nchannels + (c - 1)) * w
        top == wav.data[base + w]
    IN  LowBytes(wav.data, base, w - 1) + (IF top >= 128 THEN top - 256 ELSE top) * Pow256[w]

Exists(path) == path \in DOMAIN fs

TracksOnDisk == {i \in 1..NumTracks : Exists(TrackFiles[i])}

\* the given paths that exist, in the order given
GivenExisting == SelectSeq(input_files, LAMBDA f : f \in DOMAIN fs /\ f # OutputFile)

\* the file system without the output file of the import command
WithoutOutput == [p \in DOMAIN fs \ {OutputFile} |-> fs[p]]

-----------------------------------------------------------------------------
(* C1 *)

\* C1: exporting a valid 12-channel file X of 16, 24 or 32 bits and then
\* importing the six track files in order succeeds and gives a 12-channel file
\* with X's frame count, sample rate and bit depth and X's sample at every
\* frame and channel.
C1_RoundTrip ==
    (/\ op = "import"
     /\ input_files = TrackFiles
     /\ Exists(InputPath)
     /\ TracksOnDisk = 1..NumTracks)
    => /\ ret = TRUE
       /\ Exists(OutputFile)
       /\ LET X == fs[InputPath]
              Y == fs[OutputFile]
          IN  /\ Y.nchannels = NumChannels
              /\ Y.nframes = X.nframes
              /\ Y.framerate = X.framerate
              /\ Y.sampwidth = X.sampwidth
              /\ \A f \in 1..X.nframes : \A c \in 1..NumChannels :
                    SampleAt(Y, f, c) = SampleAt(X, f, c)

\* a 24-bit recording of two frames with a negative sample went through both commands
C1_Witness ==
    /\ op = "import"
    /\ input_files = TrackFiles
    /\ ret = TRUE
    /\ Exists(InputPath)
    /\ fs[InputPath].sampwidth = 3
    /\ fs[InputPath].nframes = 2
    /\ \E c \in 1..NumChannels : SampleAt(fs[InputPath], 2, c) < 0
    /\ Exists(OutputFile)
    /\ fs[OutputFile].nframes = 2

-----------------------------------------------------------------------------
(* C2 *)

\* C2: read_24bit_audio of a byte triple is the two's-complement value of the
\* 24-bit number b0 + 256*b1 + 65536*b2: the upper eight bits of the 32-bit
\* result are all one when bit 23 is set and all zero otherwise, 00 00 00 reads
\* as 0, FF FF 7F as 8388607, 00 00 80 as -8388608, and every result lies in
\* -8388608..8388607.
C2_SignExtension ==
    (codec.stage = "bytes_read" /\ codec.width = 3)
    => LET b == codec.orig
           v == codec.mid[1][1]
           upper == (v \div 16777216) % 256
       IN  /\ v = TwosComplement24(b)
           /\ upper = (IF b[3] >= 128 THEN 255 ELSE 0)
           /\ v >= -8388608 /\ v <= 8388607
           /\ (b = <<0, 0, 0>> => v = 0)
           /\ (b = <<255, 255, 127>> => v = 8388607)
           /\ (b = <<0, 0, 128>> => v = -8388608)

\* 00 00 80 was read, as -8388608
C2_Witness ==
    /\ codec.stage = "bytes_read"
    /\ codec.width = 3
    /\ codec.orig = <<0, 0, 128>>
    /\ codec.mid = <<(<<-8388608>>)>>

-----------------------------------------------------------------------------
(* C3 *)

\* the low three little-endian bytes of a 32-bit sample
LowThreeOf(v) ==
    LET u == v % 16777216
    IN  <<u % 256, (u \div 256) % 256, u \div 65536>>

\* C3: write_24bit_audio emits the low three little-endian bytes of each
\* sample; a 24-bit sample written and read back is unchanged; a payload read
\* and written back is unchanged; and an all-zero buffer of any width written
\* and read back is the all-zero buffer of the same shape.
C3_WriteInvertsRead ==
    /\ (codec.stage \in {"samples_written", "samples_written_read"} /\ codec.width = 3)
       => LET flat == flatten(codec.orig, codec.nchannels)
          IN  /\ Len(codec.mid) = 3 * Len(flat)
              /\ \A k \in 1..Len(flat) :
                    SubSeq(codec.mid, 3 * k - 2, 3 * k) = LowThreeOf(flat[k])
    /\ codec.stage = "samples_written_read" => codec.fin = codec.orig
    /\ codec.stage = "bytes_read_written" => codec.fin = codec.orig
    /\ codec.stage = "samples_written_read"
       => /\ Len(codec.fin) = Len(codec.orig)
          /\ \A f \in 1..Len(codec.fin) :
                /\ Len(codec.fin[f]) = codec.nchannels
                /\ (\A c \in 1..codec.nchannels : codec.orig[f][c] = 0)
                   => (\A c \in 1..codec.nchannels : codec.fin[f][c] = 0)

\* -8388608 was written as 00 00 80 and read back
C3_Witness ==
    /\ codec.stage = "samples_written_read"
    /\ codec.width = 3
    /\ codec.orig = <<(<<-8388608>>)>>
    /\ codec.mid = <<0, 0, 128>>
    /\ codec.fin = <<(<<-8388608>>)>>

-----------------------------------------------------------------------------
(* C4 *)

\* C4: after a successful export of a 12-channel file of F frames, track file
\* i+1 (i = 0..5) is a 2-channel file of F frames with the input's bit depth
\* and sample rate whose left sample in every frame is the input's channel 2i
\* and whose right sample is the input's channel 2i+1.
C4_ChannelSlicing ==
    (op = "export" /\ ret = TRUE)
    => /\ Exists(InputPath)
       /\ \A i \in 0..(NumTracks - 1) :
             /\ Exists(TrackFiles[i + 1])
             /\ LET X == fs[InputPath]
                    T == fs[TrackFiles[i + 1]]
                IN  /\ T.nchannels = 2
                    /\ T.nframes = X.nframes
                    /\ T.sampwidth = X.sampwidth
                    /\ T.framerate = X.framerate
                    /\ Len(T.data) = X.nframes * 2 * X.sampwidth
                    /\ \A f \in 1..X.nframes :
                          /\ SampleAt(T, f, 1) = SampleAt(X, f, 2 * i + 1)
                          /\ SampleAt(T, f, 2) = SampleAt(X, f, 2 * i + 2)

\* a recording whose channel k is constantly k was exported: track file i+1
\* holds 2i on the left and 2i+1 on the right
C4_Witness ==
    /\ op = "export"
    /\ ret = TRUE
    /\ fs[InputPath].nframes = 2
    /\ \A f \in 1..2 : \A c \in 1..NumChannels : SampleAt(fs[InputPath], f, c) = c - 1
    /\ \A i \in 0..(NumTracks - 1) : \A f \in 1..2 :
          /\ SampleAt(fs[TrackFiles[i + 1]], f, 1) = 2 * i
          /\ SampleAt(fs[TrackFiles[i + 1]], f, 2) = 2 * i + 1

-----------------------------------------------------------------------------
(* C5 *)

\* the longest of the given existing files, in frames
RECURSIVE LongestGiven(_)
LongestGiven(paths) ==
    IF paths = <<>> THEN 0
    ELSE LET rest == LongestGiven(Tail(paths))
             here == fs[Head(paths)].nframes
         IN  IF here > rest THEN here ELSE rest

\* C5: after a successful import of n stereo files (1 <= n <= 6) the output
\* has 12 channels and as many frames as the longest input; columns 2i, 2i+1
\* hold the i-th file's samples in its own rows and zero in the rows after
\* them; the columns of the tracks n..5 are zero in every row.
C5_SilencePadding ==
    (op = "import" /\ ret = TRUE)
    => /\ Exists(OutputFile)
       /\ LET v == GivenExisting
              n == Len(v)
              Y == fs[OutputFile]
          IN  /\ n >= 1 /\ n <= NumTracks
              /\ Y.nchannels = NumChannels
              /\ Y.nframes = LongestGiven(v)
              /\ Len(Y.data) = Y.nframes * NumChannels * Y.sampwidth
              /\ \A i \in 0..(n - 1) : \A f \in 1..Y.nframes : \A side \in 1..2 :
                    SampleAt(Y, f, 2 * i + side) =
                        (IF f <= fs[v[i + 1]].nframes THEN SampleAt(fs[v[i + 1]], f, side) ELSE 0)
              /\ \A j \in n..(NumTracks - 1) : \A f \in 1..Y.nframes : \A side \in 1..2 :
                    SampleAt(Y, f, 2 * j + side) = 0

\* a two-frame file and a one-frame file were imported: two frames out, the
\* second pair non-zero in frame 1 and zero in frame 2, the pairs 3 to 6 zero
C5_Witness ==
    /\ op = "import"
    /\ ret = TRUE
    /\ input_files = <<StereoA, StereoB>>
    /\ fs[StereoA].nframes = 2
    /\ fs[StereoB].nframes = 1
    /\ fs[OutputFile].nframes = 2
    /\ SampleAt(fs[OutputFile], 1, 3) # 0
    /\ SampleAt(fs[OutputFile], 2, 3) = 0
    /\ SampleAt(fs[OutputFile], 2, 4) = 0
    /\ \A c \in 5..NumChannels : SampleAt(fs[OutputFile], 1, c) = 0

-----------------------------------------------------------------------------
(* C6 *)

\* the first check file k of the given existing files fails, in the order
\* channel count, bit depth, sample rate; "none" if it passes all three
FirstMismatch(v, k) ==
    IF fs[v[k]].nchannels # 2 THEN "ChannelCountMismatch"
    ELSE IF fs[v[k]].sampwidth # fs[v[1]].sampwidth THEN "SampleWidthMismatch"
    ELSE IF fs[v[k]].framerate # fs[v[1]].framerate THEN "SampleRateMismatch"
    ELSE "none"

\* C6: an import of one to six existing files fails if the first is not
\* 2-channel or a later one is not 2-channel, differs in bit depth from the
\* first or differs in sample rate from the first; the error is that of the
\* first offending file in input order and, within the file, of the first
\* failing check in that order; and a failed import leaves no output file.
C6_ValidationRejection ==
    op = "import"
    => LET v == GivenExisting
       IN  /\ (Len(v) >= 1 /\ Len(v) <= NumTracks)
              => /\ fs[v[1]].nchannels # 2
                    => (ret = FALSE /\ err = "ChannelCountMismatch")
                 /\ \A k \in 1..Len(v) :
                       (/\ FirstMismatch(v, k) # "none"
                        /\ \A j \in 1..(k - 1) : FirstMismatch(v, j) = "none")
                       => (ret = FALSE /\ err = FirstMismatch(v, k))
           /\ ret = FALSE => ~Exists(OutputFile)

\* two stereo files of the same bit depth and different sample rates were
\* given: SampleRateMismatch, and no output file
C6_Witness ==
    /\ op = "import"
    /\ input_files = <<StereoA, StereoB>>
    /\ Exists(StereoA)
    /\ Exists(StereoB)
    /\ fs[StereoA].nchannels = 2
    /\ fs[StereoB].nchannels = 2
    /\ fs[StereoA].sampwidth = fs[StereoB].sampwidth
    /\ fs[StereoA].framerate # fs[StereoB].framerate
    /\ ret = FALSE
    /\ err = "SampleRateMismatch"
    /\ ~Exists(OutputFile)

-----------------------------------------------------------------------------
(* C7 *)

\* C7, as claimed: whenever more than six paths are given, the import fails
\* with TooManyTracks and writes no output, whichever of the paths exist.
C7_TooManyGiven ==
    (op = "import" /\ Len(input_files) > NumTracks)
    => (ret = FALSE /\ err = "TooManyTracks" /\ ~Exists(OutputFile))

\* C7, amended: the import fails with TooManyTracks, writing no output, exactly
\* when more than six of the given paths exist; given more than six paths of
\* which none exists it fails with NoValidInputs, and given more than six of
\* which one to six exist it is not rejected for their number.
C7_TooManyExisting ==
    op = "import"
    => LET v == GivenExisting
       IN  /\ Len(v) > NumTracks
              => (ret = FALSE /\ err = "TooManyTracks" /\ ~Exists(OutputFile))
           /\ err = "TooManyTracks" => Len(v) > NumTracks
           /\ (Len(input_files) > NumTracks /\ Len(v) = 0)
              => (ret = FALSE /\ err = "NoValidInputs")

\* seven existing paths were given
C7_Witness ==
    /\ op = "import"
    /\ Len(input_files) = 7
    /\ Len(GivenExisting) = 7
    /\ ret = FALSE
    /\ err = "TooManyTracks"
    /\ ~Exists(OutputFile)

-----------------------------------------------------------------------------
(* C8 *)

\* C8: a path that does not exist is skipped (the import ends as the import
\* of the existing paths alone does); the import fails with NoValidInputs
\* exactly when no given path exists; and after a successful import the k-th
\* existing path, in the order given, is in the output's channels 2k and 2k+1.
C8_SkipAndSlotOrder ==
    op = "import"
    => LET v == GivenExisting
           alone == import_to_multitrack(WithoutOutput, v, OutputFile)
       IN  /\ ret = alone.ret /\ err = alone.err /\ fs = alone.fs
           /\ err = "NoValidInputs" <=> Len(v) = 0
           /\ Len(v) = 0 => ret = FALSE
           /\ ret = TRUE
              => \A k \in 0..(Len(v) - 1) : \A f \in 1..fs[v[k + 1]].nframes : \A side \in 1..2 :
                    SampleAt(fs[OutputFile], f, 2 * k + side) = SampleAt(fs[v[k + 1]], f, side)

\* the missing path, then b.wav, then a.wav were given: b.wav is in channels
\* 0-1 and a.wav in channels 2-3, and the two differ
C8_Witness ==
    /\ op = "import"
    /\ input_files = <<Missing, StereoB, StereoA>>
    /\ ret = TRUE
    /\ fs[StereoA].nframes >= 1
    /\ fs[StereoB].nframes >= 1
    /\ SampleAt(fs[OutputFile], 1, 1) = SampleAt(fs[StereoB], 1, 1)
    /\ SampleAt(fs[OutputFile], 1, 3) = SampleAt(fs[StereoA], 1, 1)
    /\ SampleAt(fs[StereoA], 1, 1) # SampleAt(fs[StereoB], 1, 1)

-----------------------------------------------------------------------------
(* C9 *)

\* C9: an export fails when the input does not exist, has a channel count
\* other than 12 or a bit depth other than 16, 24 or 32, and then no track
\* file has been written; and an export that returns True has written all six.
C9_AllOrNone ==
    op = "export"
    => /\ (\/ ~Exists(InputPath)
           \/ fs[InputPath].nchannels # NumChannels
           \/ fs[InputPath].sampwidth \notin {2, 3, 4})
          => (ret = FALSE /\ TracksOnDisk = {})
       /\ ret = TRUE => TracksOnDisk = 1..NumTracks

\* a 13-channel file was given: failure, no track file
C9_Witness ==
    /\ op = "export"
    /\ Exists(InputPath)
    /\ fs[InputPath].nchannels = NumChannels + 1
    /\ fs[InputPath].sampwidth = 3
    /\ fs[InputPath].nframes = 2
    /\ ret = FALSE
    /\ TracksOnDisk = {}

-----------------------------------------------------------------------------
(* C10 *)

\* C10: an export whose input does not exist creates no directory; an export
\* that fails on the channel count or on the bit depth leaves the output
\* directory in existence (created if it was absent) and writes no track file.
C10_DirectoryOrder ==
    [][(op = "none" /\ op' = "export")
       => /\ ~Exists(InputPath) => (ret' = FALSE /\ dirs' = dirs /\ fs' = fs)
          /\ (/\ Exists(InputPath)
              /\ \/ fs[InputPath].nchannels # NumChannels
                 \/ fs[InputPath].sampwidth \notin {2, 3, 4})
             => /\ ret' = FALSE
                /\ dirs' = dirs \cup {OutputDir}
                /\ fs' = fs
                /\ \A i \in 1..NumTracks : TrackFiles[i] \notin DOMAIN fs']_vars

\* an 8-bit 12-channel file was given: failure, the directory exists, no track file
C10_Witness ==
    /\ op = "export"
    /\ Exists(InputPath)
    /\ fs[InputPath].nchannels = NumChannels
    /\ fs[InputPath].sampwidth = 1
    /\ ret = FALSE
    /\ err = "UnsupportedBitDepth"
    /\ OutputDir \in dirs
    /\ TracksOnDisk = {}

=============================================================================
